---- MODULE Spec2Model ----
(***************************************************************************)
(* Model of svg2gds.py: the curve flatteners (approximate_path_fixed,      *)
(* adaptive_approximate_segment, approximate_path_adaptive) and the        *)
(* conversion run convert_svg_string_to_gds (flatten every path, bounding  *)
(* box, centre/scale/flip, emit, write).                                   *)
(*                                                                         *)
(* Numbers.  The coordinates of the points the flatteners return are       *)
(* binary fractions of a few bits, computed without rounding; they are     *)
(* held as rationals <<n, d>> in lowest terms with d > 0.  The transform   *)
(* rounds: it is modelled in binary64 arithmetic (see below).              *)
(*                                                                         *)
(* Segments.  svgpathtools segments are modelled by the two polynomial     *)
(* kinds Line and QuadraticBezier, evaluated by their defining formula.    *)
(***************************************************************************)
EXTENDS Integers, Sequences, FiniteSets

VARIABLES
    \* ---- one call of convert_svg_string_to_gds ----
    paths,              \* result of svg2paths2: a sequence of paths
    method,             \* "fixed" | "adaptive" | anything else
    steps,              \* int
    max_error,          \* rational
    desired_width_um,   \* Absent or rational
    flip_y,             \* BOOLEAN
    pc,                 \* position in the function body
    pidx,               \* number of paths the flattening loop has consumed
    poly_pts,           \* the loop's local: points of the path last flattened
    all_polygons,       \* non-empty point lists collected so far
    bbox,               \* Absent, or <<[xmin, xmax, ymin, ymax, cx, cy, scale_factor]>>
    cell,               \* polygons added to the GDS cell, each [points, layer]
    written,            \* lib.write_gds was called
    outcome,            \* how the call ended ("running" until then)
    \* ---- one segment handed to adaptive_approximate_segment twice ----
    seg,                \* the segment
    tolA, tolB,         \* two tolerances, tolA <= tolB
    resA, resB,         \* the two results (Absent until computed)
    spc                 \* "idle" | "start" | "one" | "two"

vars == <<paths, method, steps, max_error, desired_width_um, flip_y, pc, pidx,
          poly_pts, all_polygons, bbox, cell, written, outcome,
          seg, tolA, tolB, resA, resB, spc>>

runVars == <<paths, method, steps, max_error, desired_width_um, flip_y, pc, pidx,
             poly_pts, all_polygons, bbox, cell, written, outcome>>

segVars == <<seg, tolA, tolB, resA, resB, spc>>

\* Python's None where a string stands (an exception name, a method).
None == "None"
\* Python's None where a number, a record or a list stands; also the empty list.
Absent == <<>>

(***************************************************************************)
(* Bounds of the model.                                                    *)
(***************************************************************************)
\* Size of the parsed document: number of paths plus number of segments.
MaxSize == 4
\* Control points of the single-segment runs lie on the grid Grid*(0..MaxCoord).
MaxCoord == 2

(***************************************************************************)
(* Exact rational arithmetic.                                              *)
(***************************************************************************)
Abs(n) == IF n < 0 THEN -n ELSE n

RECURSIVE GCD(_, _)
GCD(a, b) == IF b = 0 THEN a ELSE GCD(b, a % b)

\* n/d in lowest terms, d # 0
Rat(n, d) ==
    LET g == GCD(Abs(n), Abs(d))
        s == IF d < 0 THEN -1 ELSE 1
    IN  <<(s * n) \div g, (s * d) \div g>>

R(n) == <<n, 1>>
Zero == R(0)
One == R(1)
Half == <<1, 2>>

RAdd(a, b) == Rat(a[1] * b[2] + b[1] * a[2], a[2] * b[2])
RNeg(a) == <<-a[1], a[2]>>
RSub(a, b) == RAdd(a, RNeg(b))
RMul(a, b) == Rat(a[1] * b[1], a[2] * b[2])
RDiv(a, b) == Rat(a[1] * b[2], a[2] * b[1])
RLe(a, b) == a[1] * b[2] <= b[1] * a[2]
RLt(a, b) == a[1] * b[2] < b[1] * a[2]
RAbs(a) == <<Abs(a[1]), a[2]>>
RMin(a, b) == IF RLe(a, b) THEN a ELSE b
RMax(a, b) == IF RLe(a, b) THEN b ELSE a

(***************************************************************************)
(* Points (complex numbers / coordinate pairs) and segments.               *)
(***************************************************************************)
Pt(x, y) == <<R(x), R(y)>>
PAdd(p, q) == <<RAdd(p[1], q[1]), RAdd(p[2], q[2])>>
PSub(p, q) == <<RSub(p[1], q[1]), RSub(p[2], q[2])>>
PScale(k, p) == <<RMul(k, p[1]), RMul(k, p[2])>>

Line(a, b) == [kind |-> "Line", start |-> a, control |-> a, end |-> b]
QuadraticBezier(a, c, b) == [kind |-> "QuadraticBezier", start |-> a, control |-> c, end |-> b]

\* seg.point(t): the segment evaluated at parameter t
Point(s, t) ==
    IF s.kind = "Line"
    THEN PAdd(s.start, PScale(t, PSub(s.end, s.start)))
    ELSE LET u == RSub(One, t)
         IN  PAdd(PAdd(PScale(RMul(u, u), s.start),
                       PScale(RMul(R(2), RMul(u, t)), s.control)),
                  PScale(RMul(t, t), s.end))

\* chord_vec.real * mid_vec.imag - chord_vec.imag * mid_vec.real
Cross(a, b) == RSub(RMul(a[1], b[2]), RMul(a[2], b[1]))

\* abs(z) ** 2 of a complex number
Norm2(a) == RAdd(RMul(a[1], a[1]), RMul(a[2], a[2]))

\* The tolerance taken upside down: error <= 1 / err (for err > 0).
ChordErrorLeInverse(cross, len2, err) ==
    IF RLe(err, Zero) THEN FALSE
    ELSE RLe(RMul(RMul(cross, cross), RMul(err, err)), len2)

\* abs(cross) / chord_len <= err, for chord_len # 0, decided without the
\* square root: cross^2 <= err^2 * chord_len^2 when err > 0.
ChordErrorLe(cross, len2, err) ==
    IF RLt(err, Zero) THEN FALSE
    ELSE IF err = Zero THEN cross = Zero
    ELSE RLe(RMul(cross, cross), RMul(RMul(err, err), len2))

Front(s) == SubSeq(s, 1, Len(s) - 1)
Tail1(s) == SubSeq(s, 2, Len(s))

(***************************************************************************)
(* adaptive_approximate_segment and its inner recursive_subdivide.         *)
(***************************************************************************)
\* left_pts + right_pts: the midpoint kept by both halves.
JoinHalvesKeepBoth(left_pts, right_pts) == left_pts \o right_pts

\* left_pts[:-1] + right_pts
JoinHalves(left_pts, right_pts) == Front(left_pts) \o right_pts

\* Lines 92-103: the interval [t0, t1] is returned as [p0, p2] without a split.
ReturnsChord(s, t0, t1, err) ==
    LET p0 == Point(s, t0)
        p1 == Point(s, RMul(RAdd(t0, t1), Half))
        p2 == Point(s, t1)
        chord_vec == PSub(p2, p0)
        mid_vec == PSub(p1, p0)
        len2 == Norm2(chord_vec)
    IN  \/ len2 = Zero
        \/ ChordErrorLe(Cross(chord_vec, mid_vec), len2, err)

\* Evaluated for arguments on which the recursion ends (see below).
RECURSIVE recursive_subdivide(_, _, _, _)
recursive_subdivide(s, t0, t1, err) ==
    IF ReturnsChord(s, t0, t1, err) THEN <<Point(s, t0), Point(s, t1)>>
    ELSE LET tm == RMul(Half, RAdd(t0, t1))
             left_pts == recursive_subdivide(s, t0, tm, err)
             right_pts == recursive_subdivide(s, tm, t1, err)
         IN  JoinHalves(left_pts, right_pts)

\* The calls whose recursion never reaches a chord it returns.  With err <= 0
\* a split interval of a line or a parabola has a half that is split again:
\* for err < 0 no chord of non-zero length passes the test of line 102, and a
\* chord of non-zero length has a half of non-zero length; for err = 0 the
\* test asks for error = 0, and a parabola that fails it on [0, 1] fails it
\* on every sub-interval (the cross product is the interval length cubed
\* times a constant of the curve, and no chord of it has length zero).
SplitsForEver(s, err) == RLe(err, Zero) /\ ~ReturnsChord(s, Zero, One, err)

\* What such a call does in the interpreter, in place of a list of points.
\* err < 0: the depth grows until the interpreter's limit, RecursionError.
\* err = 0: in doubles an interval is returned only once its points coincide
\* or line up, some fifty levels down and below the limit, so the call
\* walks a tree of about 2^50 intervals: it does not return (MemoryError
\* once the lists it builds exhaust the memory).
DepthExceeded == <<"RecursionError">>
RunsOn == <<"RunsOn">>

adaptive_approximate_segment(s, err) ==
    IF SplitsForEver(s, err)
    THEN (IF RLt(err, Zero) THEN DepthExceeded ELSE RunsOn)
    ELSE recursive_subdivide(s, Zero, One, err)

(***************************************************************************)
(* approximate_path_fixed.                                                 *)
(***************************************************************************)
RECURSIVE ConcatAll(_)
ConcatAll(ss) == IF ss = <<>> THEN <<>> ELSE Head(ss) \o ConcatAll(Tail(ss))

\* range(steps) in place of range(steps + 1): the sample at t = 1 is lost.
FixedSamplesOpen(s, st) == [i \in 1..st |-> Point(s, Rat(i - 1, st))]

\* for i in range(steps + 1): t = i / steps; pts.append(seg.point(t))   (st >= 1)
FixedSamples(s, st) == [i \in 1..(st + 1) |-> Point(s, Rat(i - 1, st))]

\* Result of a flattener: the exception it raised (None if it returned) and
\* the list it returned.
Returned(pts) == [exc |-> None, pts |-> pts]
Raised(e) == [exc |-> e, pts |-> <<>>]
\* The call does not return.
NoReturn == [exc |-> "NoReturn", pts |-> <<>>]

approximate_path_fixed(path_obj, st) ==
    IF Len(path_obj) = 0 THEN Returned(<<>>)
    ELSE IF st + 1 <= 0 THEN Returned(<<>>)           \* range(steps + 1) is empty
    ELSE IF st = 0 THEN Raised("ZeroDivisionError")    \* t = 0 / 0
    ELSE Returned(ConcatAll([k \in 1..Len(path_obj) |-> FixedSamples(path_obj[k], st)]))

(***************************************************************************)
(* approximate_path_adaptive.  pts holds the complex numbers returned by   *)
(* adaptive_approximate_segment; from the second segment on the loop       *)
(* evaluates last_pt[0] on a complex number, which raises TypeError before *)
(* the join test of lines 127-130 is reached.                              *)
(***************************************************************************)
RECURSIVE AdaptiveLoop(_, _, _, _)
AdaptiveLoop(path_obj, k, pts, err) ==
    IF k > Len(path_obj) THEN Returned(pts)
    ELSE LET seg_points == adaptive_approximate_segment(path_obj[k], err)
         IN  IF seg_points = DepthExceeded THEN Raised("RecursionError")
             ELSE IF seg_points = RunsOn THEN NoReturn
             ELSE IF pts = <<>> THEN AdaptiveLoop(path_obj, k + 1, seg_points, err)
             ELSE Raised("TypeError")

approximate_path_adaptive(path_obj, err) == AdaptiveLoop(path_obj, 1, <<>>, err)

(***************************************************************************)
(* Single-segment runs: one segment, flattened with two tolerances.        *)
(***************************************************************************)
GridPts == {Pt(4 * i, 4 * j) : i, j \in 0..MaxCoord}

Segments ==
    {Line(a, b) : a, b \in GridPts}
        \cup {QuadraticBezier(a, c, b) : a, c, b \in GridPts}

\* max_error values > 0
Tolerances == {<<1, 4>>, One, R(4)}

RunIdle ==
    /\ paths = <<>> /\ method = None /\ steps = 0 /\ max_error = Zero
    /\ desired_width_um = Absent /\ flip_y = FALSE
    /\ pc = "idle" /\ pidx = 0 /\ poly_pts = Absent /\ all_polygons = <<>>
    /\ bbox = Absent /\ cell = <<>> /\ written = FALSE /\ outcome = "idle"

SegIdle ==
    /\ seg = None /\ tolA = Zero /\ tolB = Zero
    /\ resA = Absent /\ resB = Absent /\ spc = "idle"

SegInit ==
    /\ RunIdle
    /\ seg \in Segments
    /\ tolA \in Tolerances
    /\ tolB \in {e \in Tolerances : RLe(tolA, e)}     \* 0 < tolA <= tolB
    /\ resA = Absent /\ resB = Absent
    /\ spc = "start"

ApproxA ==
    /\ spc = "start"
    /\ resA' = adaptive_approximate_segment(seg, tolA)
    /\ spc' = "one"
    /\ UNCHANGED <<seg, tolA, tolB, resB>>
    /\ UNCHANGED runVars

ApproxB ==
    /\ spc = "one"
    /\ resB' = adaptive_approximate_segment(seg, tolB)
    /\ spc' = "two"
    /\ UNCHANGED <<seg, tolA, tolB, resA>>
    /\ UNCHANGED runVars

SegNext == ApproxA \/ ApproxB

SegSpec == SegInit /\ [][SegNext]_vars

(***************************************************************************)
(* convert_svg_string_to_gds: the inputs of a call.                        *)
(***************************************************************************)
\* The segments the parsed paths are made of: a line, a second line across
\* it, an arc that starts where the first line ends, and a closed curve
\* (start = end).
RunSegments ==
    { Line(Pt(0, 0), Pt(10, 0)),
      Line(Pt(5, 4), Pt(20, 4)),
      QuadraticBezier(Pt(10, 0), Pt(14, 8), Pt(21, 0)),
      QuadraticBezier(Pt(0, 0), Pt(4, 4), Pt(0, 0)) }

SeqsUpTo(S, n) == UNION {[1..k -> S] : k \in 0..n}

\* Every list of paths with (number of paths + number of segments) <= n.
RECURSIVE PathLists(_)
PathLists(n) ==
    {<<>>} \cup
        (IF n = 0 THEN {}
         ELSE UNION { {<<p>> \o rest : rest \in PathLists(n - 1 - Len(p))} :
                      p \in SeqsUpTo(RunSegments, n - 1) })

\* (method, steps, max_error): fixed with several step counts and the default
\* max_error, adaptive with several tolerances and the default steps, and a
\* method that is neither.
Configs ==
    {<<"fixed", st, <<1, 100>>>> : st \in {-1, 0, 1, 2}}
        \cup {<<"adaptive", 1000, e>> : e \in {R(-1), Zero, <<1, 4>>}}
        \cup {<<"spline", 1000, <<1, 100>>>>}

Widths == {Absent, R(10), R(100)}

Init ==
    /\ SegIdle
    /\ paths \in PathLists(MaxSize)
    /\ \E c \in Configs : method = c[1] /\ steps = c[2] /\ max_error = c[3]
    /\ desired_width_um \in Widths
    /\ flip_y \in BOOLEAN
    /\ pc = "flatten" /\ pidx = 0 /\ poly_pts = Absent /\ all_polygons = <<>>
    /\ bbox = Absent /\ cell = <<>> /\ written = FALSE /\ outcome = "running"

(***************************************************************************)
(* Lines 145-153: the flattening loop, one path per step.                  *)
(***************************************************************************)
\* The method dispatch of lines 146-151.
ApproximatePath(path_obj) ==
    IF method = "fixed" THEN approximate_path_fixed(path_obj, steps)
    ELSE IF method = "adaptive" THEN approximate_path_adaptive(path_obj, max_error)
    ELSE Raised("ValueError")

\* all_polygons.append(poly_pts) without the test of line 152.
CollectAlways(polys, pts) == Append(polys, pts)

\* if poly_pts: all_polygons.append(poly_pts)
Collect(polys, pts) == IF pts # <<>> THEN Append(polys, pts) ELSE polys

FlattenPath ==
    /\ pc = "flatten"
    /\ pidx < Len(paths)
    /\ LET r == ApproximatePath(paths[pidx + 1])
       IN  /\ r.exc = None
           /\ poly_pts' = r.pts
           /\ all_polygons' = Collect(all_polygons, r.pts)
    /\ pidx' = pidx + 1
    /\ UNCHANGED <<paths, method, steps, max_error, desired_width_um, flip_y, pc,
                   bbox, cell, written, outcome>>
    /\ UNCHANGED segVars

\* The flattener (or the dispatch) raised: the exception leaves the function.
FlattenRaise ==
    /\ pc = "flatten"
    /\ pidx < Len(paths)
    /\ LET r == ApproximatePath(paths[pidx + 1])
       IN  /\ r.exc \notin {None, NoReturn.exc}
           /\ outcome' = r.exc
    /\ pc' = "done"
    /\ UNCHANGED <<paths, method, steps, max_error, desired_width_um, flip_y, pidx,
                   poly_pts, all_polygons, bbox, cell, written>>
    /\ UNCHANGED segVars

\* The flattener does not return: the call is still in the loop when it is
\* observed, or it has ended with MemoryError.
FlattenRunsOn ==
    /\ pc = "flatten"
    /\ pidx < Len(paths)
    /\ ApproximatePath(paths[pidx + 1]) = NoReturn
    /\ \/ pc' = "not_ended" /\ outcome' = outcome
       \/ pc' = "done" /\ outcome' = "MemoryError"
    /\ UNCHANGED <<paths, method, steps, max_error, desired_width_um, flip_y, pidx,
                   poly_pts, all_polygons, bbox, cell, written>>
    /\ UNCHANGED segVars

(***************************************************************************)
(* Lines 154-156: nothing was collected.                                   *)
(***************************************************************************)
\* if not all_polygons
NoPolygons(polys) == polys = <<>>

NoGeometry ==
    /\ pc = "flatten"
    /\ pidx = Len(paths)
    /\ NoPolygons(all_polygons)
    /\ outcome' = "no_geometry"
    /\ pc' = "done"
    /\ UNCHANGED <<paths, method, steps, max_error, desired_width_um, flip_y, pidx,
                   poly_pts, all_polygons, bbox, cell, written>>
    /\ UNCHANGED segVars

(***************************************************************************)
(* Python floats: IEEE 754 binary64, every operation rounded to nearest,   *)
(* ties to even.  A float other than zero is [neg, exp, man]: man lists    *)
(* the Prec bits of the significand, most significant first, man[1] = 1,   *)
(* and the value is (-1)^neg * man * 2^exp.  The exponent range is left    *)
(* open (nothing overflows or underflows at the magnitudes that occur),    *)
(* and -0.0 is identified with 0.0, to which it compares equal.            *)
(*                                                                         *)
(* The coordinates of the flattened points, the box and its centre are     *)
(* kept as rationals: each of them is a binary fraction of a few bits, so  *)
(* it is the float the program holds.  The scale factor and the emitted    *)
(* coordinates are floats.                                                 *)
(***************************************************************************)
Prec == 53

FZero == [neg |-> FALSE, exp |-> 0, man |-> <<>>]

ZeroBits(n) == [i \in 1..n |-> 0]

\* Natural numbers as lists of bits, most significant first.
RECURSIVE NatBits(_)
NatBits(n) == IF n = 0 THEN <<>> ELSE NatBits(n \div 2) \o <<n % 2>>

RECURSIVE ToNat(_)
ToNat(bits) == IF bits = <<>> THEN 0 ELSE 2 * ToNat(Front(bits)) + bits[Len(bits)]

\* bits without the zeros at its front.
StripLeading(bits) ==
    IF \A i \in 1..Len(bits) : bits[i] = 0 THEN <<>>
    ELSE SubSeq(bits, CHOOSE i \in 1..Len(bits) :
                          bits[i] = 1 /\ \A j \in 1..(i - 1) : bits[j] = 0,
                Len(bits))

\* bits without the zeros at its end.
StripTrailing(bits) ==
    IF \A i \in 1..Len(bits) : bits[i] = 0 THEN <<>>
    ELSE SubSeq(bits, 1, CHOOSE i \in 1..Len(bits) :
                             bits[i] = 1 /\ \A j \in (i + 1)..Len(bits) : bits[j] = 0)

\* bits + 1
RECURSIVE Incr(_)
Incr(bits) ==
    IF bits = <<>> THEN <<1>>
    ELSE IF bits[Len(bits)] = 0 THEN Front(bits) \o <<1>>
    ELSE Incr(Front(bits)) \o <<0>>

\* A + B.  Bit positions count from the least significant bit, position 0;
\* a carry enters position i when some lower position generates one and
\* every position between passes it on.
BitAt(A, i) == IF i < Len(A) THEN A[Len(A) - i] ELSE 0

CarryInto(A, B, i) ==
    \E j \in 0..(i - 1) :
        /\ BitAt(A, j) + BitAt(B, j) = 2
        /\ \A k \in (j + 1)..(i - 1) : BitAt(A, k) + BitAt(B, k) = 1

AddNat(A, B) ==
    LET n == (IF Len(A) >= Len(B) THEN Len(A) ELSE Len(B)) + 1
    IN  [idx \in 1..n |->
            (BitAt(A, n - idx) + BitAt(B, n - idx)
                + (IF CarryInto(A, B, n - idx) THEN 1 ELSE 0)) % 2]

\* bits * p + carry for a natural number p < 2^20.
RECURSIVE MulSmall(_, _, _)
MulSmall(bits, p, carry) ==
    IF carry = 0 /\ bits = <<>> THEN <<>>
    ELSE IF bits = <<>> THEN NatBits(carry)
    ELSE LET v == bits[Len(bits)] * p + carry
         IN  MulSmall(Front(bits), p, v \div 2) \o <<v % 2>>

\* A * B, twenty bits of B at a time.
RECURSIVE MulNat(_, _)
MulNat(A, B) ==
    IF Len(B) <= 20 THEN MulSmall(A, ToNat(B), 0)
    ELSE AddNat(MulNat(A, SubSeq(B, 1, Len(B) - 20)) \o ZeroBits(20),
                MulSmall(A, ToNat(SubSeq(B, Len(B) - 19, Len(B))), 0))

\* The float nearest to bits * 2^exp + rest, where 0 <= rest < 2^exp and
\* inexact says that rest # 0 (only with more than Prec bits).
RoundBits(neg, exp, bits0, inexact) ==
    LET bits == StripLeading(bits0)
        L == Len(bits)
    IN  IF L = 0 THEN FZero
        ELSE IF L <= Prec
        THEN [neg |-> neg, exp |-> exp - (Prec - L), man |-> bits \o ZeroBits(Prec - L)]
        ELSE LET kept == SubSeq(bits, 1, Prec)
                 below == inexact \/ \E i \in (Prec + 2)..L : bits[i] = 1
                 up == bits[Prec + 1] = 1 /\ (below \/ kept[Prec] = 1)
                 m == IF up THEN Incr(kept) ELSE kept
             IN  IF Len(m) > Prec
                 THEN [neg |-> neg, exp |-> exp + (L - Prec) + 1, man |-> Front(m)]
                 ELSE [neg |-> neg, exp |-> exp + (L - Prec), man |-> m]

RECURSIVE IsPow2(_)
IsPow2(d) == d = 1 \/ (d > 1 /\ d % 2 = 0 /\ IsPow2(d \div 2))

RECURSIVE Log2(_)
Log2(d) == IF d = 1 THEN 0 ELSE 1 + Log2(d \div 2)

\* <<a1, d1, k>> with a / d = (a1 / d1) * 2^k and d1 <= a1 < 2 * d1.
RECURSIVE Scale2(_, _, _)
Scale2(a, d, k) ==
    IF a < d THEN Scale2(2 * a, d, k - 1)
    ELSE IF a >= 2 * d THEN Scale2(a, 2 * d, k + 1)
    ELSE <<a, d, k>>

\* The first cnt bits of r / d (0 <= r < 2 * d), followed by one more entry:
\* 1 if something of r is left, else 0.
RECURSIVE QuotBits(_, _, _)
QuotBits(r, d, cnt) ==
    IF cnt = 0 THEN <<IF r # 0 THEN 1 ELSE 0>>
    ELSE LET b == IF r >= d THEN 1 ELSE 0
         IN  <<b>> \o QuotBits(2 * (r - b * d), d, cnt - 1)

\* The float nearest to the rational r: the result of a float operation
\* whose exact result is r.
FloatOf(r) ==
    IF r[1] = 0 THEN FZero
    ELSE IF IsPow2(r[2])                \* r = n / 2^k: no division
    THEN RoundBits(r[1] < 0, -Log2(r[2]), NatBits(Abs(r[1])), FALSE)
    ELSE LET n == Scale2(Abs(r[1]), r[2], 0)
             q == QuotBits(n[1], n[2], Prec + 1)
         IN  RoundBits(r[1] < 0, n[3] - Prec, Front(q), q[Len(q)] = 1)

\* x - y and x / y of two floats held as rationals.
FSub(x, y) == FloatOf(RSub(x, y))
FDiv(x, y) == FloatOf(RDiv(x, y))

\* x * y of two floats.
FMul(x, y) ==
    IF x = FZero \/ y = FZero THEN FZero
    ELSE LET bx == StripTrailing(x.man)
             by == StripTrailing(y.man)
             prod == IF Len(bx) <= Len(by) THEN MulNat(by, bx) ELSE MulNat(bx, by)
         IN  RoundBits(x.neg # y.neg,
                       x.exp + (Prec - Len(bx)) + y.exp + (Prec - Len(by)),
                       prod, FALSE)

\* -x
FNeg(x) == IF x = FZero THEN FZero ELSE [x EXCEPT !.neg = ~x.neg]

(***************************************************************************)
(* Lines 158-170: bounding box, centre and scale factor.                   *)
(***************************************************************************)
RECURSIVE MinOf(_)
MinOf(xs) == IF Len(xs) = 1 THEN xs[1] ELSE RMin(xs[1], MinOf(Tail(xs)))

RECURSIVE MaxOf(_)
MaxOf(xs) == IF Len(xs) = 1 THEN xs[1] ELSE RMax(xs[1], MaxOf(Tail(xs)))

\* [p[0] for poly in all_polygons for p in poly], and the same for p[1]
Coords(polys, i) == LET ps == ConcatAll(polys) IN [k \in 1..Len(ps) |-> ps[k][i]]

\* The width taken as xmax in place of xmax - xmin.
ScaleFactorNoOffset(width_um, xmin, xmax) ==
    IF width_um # Absent /\ RLt(Zero, RSub(xmax, xmin)) /\ xmax # Zero
    THEN FDiv(width_um, xmax)
    ELSE FloatOf(One)

\* Lines 167-170.  xmax - xmin is exact.
ScaleFactor(width_um, xmin, xmax) ==
    IF width_um # Absent /\ RLt(Zero, RSub(xmax, xmin))
    THEN FDiv(width_um, RSub(xmax, xmin))
    ELSE FloatOf(One)

\* The box of the last polygon only, as if computed inside the loop.
BBoxOfLastPolygon(polys, width_um) ==
    LET xs == Coords(<<polys[Len(polys)]>>, 1)
        ys == Coords(<<polys[Len(polys)]>>, 2)
    IN  [xmin |-> MinOf(xs), xmax |-> MaxOf(xs), ymin |-> MinOf(ys), ymax |-> MaxOf(ys),
         cx |-> RMul(Half, RAdd(MinOf(xs), MaxOf(xs))),
         cy |-> RMul(Half, RAdd(MinOf(ys), MaxOf(ys))),
         scale_factor |-> IF width_um # Absent /\ RLt(Zero, RSub(MaxOf(xs), MinOf(xs)))
                          THEN FDiv(width_um, RSub(MaxOf(xs), MinOf(xs)))
                          ELSE FloatOf(One)]

BBoxOf(polys, width_um) ==
    LET xs == Coords(polys, 1)
        ys == Coords(polys, 2)
        xmin == MinOf(xs)
        xmax == MaxOf(xs)
        ymin == MinOf(ys)
        ymax == MaxOf(ys)
    IN  [xmin |-> xmin, xmax |-> xmax, ymin |-> ymin, ymax |-> ymax,
         cx |-> RMul(Half, RAdd(xmin, xmax)),
         cy |-> RMul(Half, RAdd(ymin, ymax)),
         scale_factor |-> ScaleFactor(width_um, xmin, xmax)]

BoundingBox ==
    /\ pc = "flatten"
    /\ pidx = Len(paths)
    /\ ~NoPolygons(all_polygons)
    /\ IF ConcatAll(all_polygons) = <<>>
       THEN \* min() of an empty sequence
            /\ outcome' = "ValueError"
            /\ pc' = "done"
            /\ bbox' = bbox
       ELSE /\ bbox' = <<BBoxOf(all_polygons, desired_width_um)>>
            /\ pc' = "transform"
            /\ outcome' = outcome
    /\ UNCHANGED <<paths, method, steps, max_error, desired_width_um, flip_y, pidx,
                   poly_pts, all_polygons, cell, written>>
    /\ UNCHANGED segVars

(***************************************************************************)
(* Lines 177-187: centre, scale and flip one polygon and add it to the     *)
(* cell on layer 0.                                                        *)
(***************************************************************************)
\* The scale and the flip without the centring.
TransformPointNoCentre(p, b, flip) ==
    LET tx == FMul(FloatOf(p[1]), b.scale_factor)
        ty == FMul(FloatOf(p[2]), b.scale_factor)
    IN  <<tx, IF flip THEN FNeg(ty) ELSE ty>>

\* tx = (x - cx) * scale_factor; ty = (y - cy) * scale_factor; ty = -ty
TransformPoint(p, b, flip) ==
    LET tx == FMul(FSub(p[1], b.cx), b.scale_factor)
        ty == FMul(FSub(p[2], b.cy), b.scale_factor)
    IN  <<tx, IF flip THEN FNeg(ty) ELSE ty>>

TransformPolygon(poly, b, flip) == [k \in 1..Len(poly) |-> TransformPoint(poly[k], b, flip)]

AddPolygon ==
    /\ pc = "transform"
    /\ Len(cell) < Len(all_polygons)
    /\ cell' = Append(cell, [points |-> TransformPolygon(all_polygons[Len(cell) + 1], bbox[1], flip_y),
                             layer |-> 0])
    /\ UNCHANGED <<paths, method, steps, max_error, desired_width_um, flip_y, pc, pidx,
                   poly_pts, all_polygons, bbox, written, outcome>>
    /\ UNCHANGED segVars

(***************************************************************************)
(* Line 189: lib.write_gds.                                                *)
(***************************************************************************)
WriteGds ==
    /\ pc = "transform"
    /\ Len(cell) = Len(all_polygons)
    /\ written' = TRUE
    /\ outcome' = "written"
    /\ pc' = "done"
    /\ UNCHANGED <<paths, method, steps, max_error, desired_width_um, flip_y, pidx,
                   poly_pts, all_polygons, bbox, cell>>
    /\ UNCHANGED segVars

Next == FlattenPath \/ FlattenRaise \/ FlattenRunsOn \/ NoGeometry \/ BoundingBox \/ AddPolygon \/ WriteGds

Spec == Init /\ [][Next]_vars

(***************************************************************************)
(* Vocabulary of the properties.                                           *)
(***************************************************************************)
\* The intervals recursive_subdivide accepts (returns [p0, p2] for), left to right.
RECURSIVE AcceptedIntervals(_, _, _, _)
AcceptedIntervals(s, t0, t1, err) ==
    LET p0 == Point(s, t0)
        p1 == Point(s, RMul(RAdd(t0, t1), Half))
        p2 == Point(s, t1)
        len2 == Norm2(PSub(p2, p0))
    IN  IF len2 = Zero \/ ChordErrorLe(Cross(PSub(p2, p0), PSub(p1, p0)), len2, err)
        THEN <<<<t0, t1>>>>
        ELSE LET tm == RMul(Half, RAdd(t0, t1))
             IN  AcceptedIntervals(s, t0, tm, err) \o AcceptedIntervals(s, tm, t1, err)

\* The distance from the curve point at the middle of the parameter interval
\* iv to the chord from p to q is <= eps (eps > 0).  The distance to a chord
\* of length zero is the distance to its one point.
MidpointWithin(s, iv, p, q, eps) ==
    LET m == Point(s, RMul(RAdd(iv[1], iv[2]), Half))
        len2 == Norm2(PSub(q, p))
        e2 == RMul(eps, eps)
    IN  IF len2 = Zero
        THEN RLe(Norm2(PSub(m, p)), e2)
        ELSE LET c == Cross(PSub(q, p), PSub(m, p))
             IN  RLe(RMul(c, c), RMul(e2, len2))

\* Bounding box of a list of polygons, as a property of the set of its points.
PointSet(polys) == UNION {{polys[k][j] : j \in 1..Len(polys[k])} : k \in 1..Len(polys)}
Least(S) == CHOOSE x \in S : \A y \in S : RLe(x, y)
Greatest(S) == CHOOSE x \in S : \A y \in S : RLe(y, x)
BoxOfPoints(polys) ==
    LET xs == {p[1] : p \in PointSet(polys)}
        ys == {p[2] : p \in PointSet(polys)}
    IN  [xmin |-> Least(xs), xmax |-> Greatest(xs), ymin |-> Least(ys), ymax |-> Greatest(ys)]

Emitted == [k \in 1..Len(cell) |-> cell[k].points]

\* The order of floats, and the box of a list of polygons of float points.
RECURSIVE BitsLt(_, _)
BitsLt(a, b) ==
    a # <<>> /\ (a[1] < b[1] \/ (a[1] = b[1] /\ BitsLt(Tail1(a), Tail1(b))))

MagLt(a, b) == a.exp < b.exp \/ (a.exp = b.exp /\ BitsLt(a.man, b.man))

FLt(a, b) ==
    IF a = b THEN FALSE
    ELSE IF a = FZero THEN ~b.neg
    ELSE IF b = FZero THEN a.neg
    ELSE IF a.neg # b.neg THEN a.neg
    ELSE IF a.neg THEN MagLt(b, a) ELSE MagLt(a, b)

FLe(a, b) == a = b \/ FLt(a, b)

FloatBox(polys) ==
    LET xs == {p[1] : p \in PointSet(polys)}
        ys == {p[2] : p \in PointSet(polys)}
        lo(S) == CHOOSE x \in S : \A y \in S : FLe(x, y)
        hi(S) == CHOOSE x \in S : \A y \in S : FLe(y, x)
    IN  [xmin |-> lo(xs), xmax |-> hi(xs), ymin |-> lo(ys), ymax |-> hi(ys)]

\* 2 * x (exact).
FTwice(x) == IF x = FZero THEN FZero ELSE [x EXCEPT !.exp = @ + 1]

\* The floats next to x # 0, away from zero and towards it.
RECURSIVE Decr(_)
Decr(bits) ==
    IF bits[Len(bits)] = 1 THEN Front(bits) \o <<0>>
    ELSE Decr(Front(bits)) \o <<1>>

FAway(x) ==
    LET m == Incr(x.man)
    IN  IF Len(m) > Prec THEN [x EXCEPT !.exp = @ + 1, !.man = Front(m)]
        ELSE [x EXCEPT !.man = m]

FToward(x) ==
    IF x.man = <<1>> \o ZeroBits(Prec - 1)
    THEN [x EXCEPT !.exp = @ - 1, !.man = [i \in 1..Prec |-> 1]]
    ELSE [x EXCEPT !.man = Decr(x.man)]

\* The floats at most two places from x # 0: what two roundings, each of a
\* relative error of at most 2^-53, can make of x.
WithinTwoPlaces(x) == {x, FAway(x), FAway(FAway(x)), FToward(x), FToward(FToward(x))}

\* r = n / 2^k for integers n, k: a rational that is a float (the numerators
\* here are far below 2^53).
IsFloat(r) == IsPow2(r[2])

\* The reference map of the transform for the polygons polys.
RefCentreX(polys) == LET b == BoxOfPoints(polys) IN RMul(RAdd(b.xmin, b.xmax), Half)
RefCentreY(polys) == LET b == BoxOfPoints(polys) IN RMul(RAdd(b.ymin, b.ymax), Half)
RefScale(polys, w) ==
    LET b == BoxOfPoints(polys)
    IN  IF w # Absent /\ b.xmax # b.xmin THEN FDiv(w, RSub(b.xmax, b.xmin)) ELSE FloatOf(One)
RefMap(p, cx, cy, s, flip) ==
    LET x1 == FMul(FSub(p[1], cx), s)
        y1 == FMul(FSub(p[2], cy), s)
    IN  <<x1, IF flip THEN FNeg(y1) ELSE y1>>

\* The configuration the specification calls invalid.
InvalidConfig ==
    \/ method = "fixed" /\ steps <= 0
    \/ method = "adaptive" /\ RLe(max_error, Zero)

ValidConfig ==
    \/ method = "fixed" /\ steps >= 1
    \/ method = "adaptive" /\ RLt(Zero, max_error)

\* Section 4.3 of the specification: per-segment lists concatenated, the first
\* point of a list dropped when it equals the last point assembled so far.
RECURSIVE AssembleJoined(_, _)
AssembleJoined(acc, lists) ==
    IF lists = <<>> THEN acc
    ELSE LET l == Head(lists)
         IN  AssembleJoined(IF acc # <<>> /\ l # <<>> /\ acc[Len(acc)] = l[1]
                            THEN acc \o Tail1(l) ELSE acc \o l,
                            Tail(lists))

\* Some segment of the path ends exactly where the next one starts.
HasJoin(path_obj) == \E j \in 1..(Len(path_obj) - 1) : path_obj[j].end = path_obj[j + 1].start

SegmentPoints(s) ==
    IF method = "fixed" THEN FixedSamples(s, steps)
    ELSE adaptive_approximate_segment(s, max_error)

(***************************************************************************)
(* Properties of adaptive_approximate_segment (specification SegSpec).     *)
(***************************************************************************)
\* C1: every pair of consecutive points returned by adaptive_approximate_segment
\* is an accepted chord: the curve point at the middle of the pair's parameter
\* interval lies within the tolerance of the chord, also for a pair returned
\* by the zero-chord-length branch.
C1_EveryChordWithinTolerance ==
    spc \in {"one", "two"} =>
        LET iv == AcceptedIntervals(seg, Zero, One, tolA)
        IN  /\ Len(resA) = Len(iv) + 1
            /\ \A j \in 1..Len(iv) : MidpointWithin(seg, iv[j], resA[j], resA[j + 1], tolA)

\* C8: for the same segment and tolerances 0 < tolA <= tolB, both calls return
\* and the call with tolB returns no more points than the call with tolA.
C8_MonotonicRefinement ==
    (spc = "two" /\ RLe(tolA, tolB)) =>
        /\ Len(resA) >= 2
        /\ Len(resB) >= 2
        /\ Len(resB) <= Len(resA)

\* C8 witness: a larger tolerance gave strictly fewer points, both subdivided.
C8_Witness ==
    /\ spc = "two"
    /\ RLt(tolA, tolB)
    /\ Len(resB) > 2
    /\ Len(resB) < Len(resA)

\* C10: the result of adaptive_approximate_segment is the curve at the end
\* points of the accepted intervals, which run from 0 to 1 without gap and
\* strictly increase: first point at t = 0, last at t = 1, every split
\* midpoint once, and one point more than there are accepted intervals.
C10_PointsAreIntervalEnds ==
    spc \in {"one", "two"} =>
        LET iv == AcceptedIntervals(seg, Zero, One, tolA)
            n == Len(iv)
        IN  /\ n >= 1
            /\ Len(resA) = n + 1
            /\ iv[1][1] = Zero
            /\ iv[n][2] = One
            /\ resA[1] = seg.start
            /\ resA[n + 1] = seg.end
            /\ \A j \in 1..n :
                /\ RLt(iv[j][1], iv[j][2])
                /\ j < n => iv[j][2] = iv[j + 1][1]
                /\ resA[j] = Point(seg, iv[j][1])
                /\ resA[j + 1] = Point(seg, iv[j][2])

\* C10 witness: a curve that was split more than once.
C10_Witness ==
    /\ spc = "one"
    /\ seg.kind = "QuadraticBezier"
    /\ Len(resA) >= 5

(***************************************************************************)
(* Properties of a conversion run (specification Spec).                    *)
(***************************************************************************)
\* C2: a run with steps <= 0 (fixed) or max_error <= 0 (adaptive) ends in a
\* configuration error and in nothing else, before any path is flattened,
\* any polygon collected or emitted, or anything written.
C2_InvalidConfigRejected ==
    InvalidConfig =>
        /\ outcome \in {"running", "ConfigurationError"}
        /\ pidx = 0
        /\ all_polygons = <<>>
        /\ cell = <<>>
        /\ ~written

\* C3: under a valid configuration (fixed or adaptive), a path in which some
\* segment ends exactly where the next one starts is assembled into a polygon
\* (the flattener does not fail on it), and the polygon holds the join point
\* once: it is the per-segment lists joined as in section 4.3.
C3_JoinPointOnce ==
    ValidConfig =>
        /\ (pc = "done" /\ pidx < Len(paths) /\ HasJoin(paths[pidx + 1])) =>
               outcome \in {"written", "no_geometry"}
        /\ (pidx >= 1 /\ HasJoin(paths[pidx])) =>
               LET path_obj == paths[pidx]
               IN  poly_pts = AssembleJoined(<<>>,
                       [k \in 1..Len(path_obj) |-> SegmentPoints(path_obj[k])])

\* C4: in a finished run every emitted point is the reference map of its source point, with the
\* centre and the scale of the bounding box over all points of all polygons
\* (scale 1 when no width is given or the box has width 0); the polygons keep
\* their number and order of points.
C4_ReferenceMap ==
    /\ bbox # Absent =>
        /\ bbox[1].cx = RefCentreX(all_polygons)
        /\ bbox[1].cy = RefCentreY(all_polygons)
        /\ bbox[1].scale_factor = RefScale(all_polygons, desired_width_um)
    /\ outcome = "written" =>
        LET cx == RefCentreX(all_polygons)
            cy == RefCentreY(all_polygons)
            s == RefScale(all_polygons, desired_width_um)
        IN  /\ Len(cell) = Len(all_polygons)
            /\ \A k \in 1..Len(cell) :
                /\ Len(cell[k].points) = Len(all_polygons[k])
                /\ \A j \in 1..Len(all_polygons[k]) :
                       cell[k].points[j] = RefMap(all_polygons[k][j], cx, cy, s, flip_y)

\* C4 witness: two polygons emitted, scaled and flipped.
C4_Witness ==
    /\ outcome = "written"
    /\ Len(cell) = 2
    /\ flip_y
    /\ desired_width_um # Absent
    /\ bbox[1].scale_factor # FloatOf(One)

\* C5 as claimed: with a target width W > 0 and an input box of width > 0,
\* the box of the emitted points has width exactly W and is centred at the
\* origin in x and in y.  (With xmin' = -xmax' the width is 2 * xmax'.)
C5_WidthExactlyW ==
    (outcome = "written" /\ desired_width_um # Absent /\ RLt(Zero, desired_width_um)
        /\ BoxOfPoints(all_polygons).xmin # BoxOfPoints(all_polygons).xmax) =>
        LET e == FloatBox(Emitted)
        IN  /\ FTwice(e.xmax) = FloatOf(desired_width_um)
            /\ e.xmin = FNeg(e.xmax)
            /\ e.ymin = FNeg(e.ymax)

\* C5 amended: in such a run the box of the emitted points is centred at the
\* origin in x and in y, its width is W up to the rounding of the division
\* and the multiplication (xmax' at most two places from W / 2), and it is
\* exactly W when W / (xmax - xmin) is a float.
C5_WidthWithinRounding ==
    (outcome = "written" /\ desired_width_um # Absent /\ RLt(Zero, desired_width_um)
        /\ BoxOfPoints(all_polygons).xmin # BoxOfPoints(all_polygons).xmax) =>
        LET e == FloatBox(Emitted)
            b == BoxOfPoints(all_polygons)
        IN  /\ e.xmin = FNeg(e.xmax)
            /\ e.ymin = FNeg(e.ymax)
            /\ e.xmax \in WithinTwoPlaces(FloatOf(RMul(Half, desired_width_um)))
            /\ IsFloat(RDiv(desired_width_um, RSub(b.xmax, b.xmin))) =>
                   FTwice(e.xmax) = FloatOf(desired_width_um)

\* C5 witness: polygons spanning x in [0,10] and [5,20], W = 100, emitted
\* x-extent [-50, 50].
C5_Witness ==
    /\ outcome = "written"
    /\ Len(all_polygons) = 2
    /\ desired_width_um = R(100)
    /\ BoxOfPoints(<<all_polygons[1]>>).xmin = R(0)
    /\ BoxOfPoints(<<all_polygons[1]>>).xmax = R(10)
    /\ BoxOfPoints(<<all_polygons[2]>>).xmin = R(5)
    /\ BoxOfPoints(<<all_polygons[2]>>).xmax = R(20)
    /\ FloatBox(Emitted).xmin = FloatOf(R(-50))
    /\ FloatBox(Emitted).xmax = FloatOf(R(50))

\* C6: when the flattening loop ends with no polygon that has points, the run
\* ends with the result "no_geometry": no bounding box, nothing emitted,
\* nothing written.
C6_NoGeometry ==
    (pc # "flatten" /\ pidx = Len(paths) /\ ConcatAll(all_polygons) = <<>>) =>
        /\ pc = "done"
        /\ outcome = "no_geometry"
        /\ bbox = Absent
        /\ cell = <<>>
        /\ ~written

\* C6 witness: paths were parsed, each contributed no points.
C6_Witness ==
    /\ outcome = "no_geometry"
    /\ Len(paths) >= 2
    /\ method = "adaptive"

\* C7 as claimed: with target width = original width and no flip, the box of
\* the emitted points equals the original box.
C7_SameBox ==
    (outcome = "written" /\ ~flip_y /\ desired_width_um # Absent
        /\ desired_width_um = RSub(BoxOfPoints(all_polygons).xmax, BoxOfPoints(all_polygons).xmin)) =>
        LET b == BoxOfPoints(all_polygons)
        IN  FloatBox(Emitted) =
                [xmin |-> FloatOf(b.xmin), xmax |-> FloatOf(b.xmax),
                 ymin |-> FloatOf(b.ymin), ymax |-> FloatOf(b.ymax)]

\* C7 amended: with target width = original width and no flip, the box of the
\* emitted points is the original box moved by (-cx, -cy): same width and
\* height, centred at the origin.
C7_SameBoxCentred ==
    (outcome = "written" /\ ~flip_y /\ desired_width_um # Absent
        /\ desired_width_um = RSub(BoxOfPoints(all_polygons).xmax, BoxOfPoints(all_polygons).xmin)) =>
        LET b == BoxOfPoints(all_polygons)
            cx == RMul(RAdd(b.xmin, b.xmax), Half)
            cy == RMul(RAdd(b.ymin, b.ymax), Half)
        IN  FloatBox(Emitted) =
                [xmin |-> FSub(b.xmin, cx), xmax |-> FSub(b.xmax, cx),
                 ymin |-> FSub(b.ymin, cy), ymax |-> FSub(b.ymax, cy)]

\* C7 witness: such a run whose original box is not centred at the origin.
C7_Witness ==
    /\ outcome = "written"
    /\ ~flip_y
    /\ desired_width_um # Absent
    /\ desired_width_um = RSub(BoxOfPoints(all_polygons).xmax, BoxOfPoints(all_polygons).xmin)
    /\ bbox[1].cx # Zero
    /\ bbox[1].cy # Zero

\* C9: for a path of k segments and steps = N >= 1, approximate_path_fixed
\* returns k * (N + 1) points: segment by segment, the points at t = i/N for
\* i = 0..N, the first being the segment's start and the last its end.
C9_FixedSamples ==
    (method = "fixed" /\ steps >= 1 /\ pidx >= 1) =>
        LET path_obj == paths[pidx]
            k == Len(path_obj)
            N == steps
        IN  /\ Len(poly_pts) = k * (N + 1)
            /\ \A j \in 1..k :
                /\ \A i \in 0..N :
                       poly_pts[(j - 1) * (N + 1) + i + 1] = Point(path_obj[j], Rat(i, N))
                /\ poly_pts[(j - 1) * (N + 1) + 1] = path_obj[j].start
                /\ poly_pts[j * (N + 1)] = path_obj[j].end

\* C9 witness: one line from (0,0) to (10,0) with N = 1 gives [(0,0), (10,0)].
C9_Witness ==
    /\ method = "fixed"
    /\ steps = 1
    /\ pidx = 1
    /\ paths[1] = <<Line(Pt(0, 0), Pt(10, 0))>>
    /\ poly_pts = <<Pt(0, 0), Pt(10, 0)>>

====
